---- MODULE Spec2Model ----
(***************************************************************************)
(* Checkpoint retention of dar_package/train_contours.py, function run:    *)
(* the per-epoch checkpoint step (heappush, conditional heappop, lazy      *)
(* write, deletion of the evicted file), the unconditional save of the     *)
(* last epoch, and the end-of-run selection of best_chk.pth.tar.           *)
(***************************************************************************)
EXTENDS Integers, Sequences, FiniteSets, TLC

\* ---------------------------------------------------------------- bounds
MaxEpochs == 4
MaxKeep == 3
MaxLoss == 2
MaxDelay == 2

\* ------------------------------------------------- floating-point losses
\* A validation loss is an IEEE float: either NaN or a number.
Float(v) == [nan |-> FALSE, v |-> v]
NaN == [nan |-> TRUE, v |-> 0]
IsNaN(x) == x.nan
\* the key without the minus sign
NegForgotten(x) == x
\* unary minus of line 168: -NaN is NaN
Neg(x) == [nan |-> x.nan, v |-> 0 - x.v]
\* float comparison: every comparison with NaN is False
FloatLt(a, b) == ~a.nan /\ ~b.nan /\ a.v < b.v
FloatEq(a, b) == ~a.nan /\ ~b.nan /\ a.v = b.v

Losses == {Float(v) : v \in 1..MaxLoss} \cup {NaN}

\* ------------------------------------------------------ checkpoint paths
\* "chk-{:04}.pth.tar".format(epoch_num): the zero-padded decimal digits of
\* epoch_num are the only part of the path that differs between epochs.
RECURSIVE Digits(_)
Digits(n) == IF n < 10 THEN <<n>> ELSE Append(Digits(n \div 10), n % 10)

RECURSIVE ZeroPad(_, _)
ZeroPad(s, width) == IF Len(s) >= width THEN s ELSE ZeroPad(<<0>> \o s, width)

ChkPath(epoch) == ZeroPad(Digits(epoch), 4)

\* the reversed string order
RECURSIVE PathGt(_, _)
PathGt(p, q) ==
    IF p = <<>> THEN FALSE
    ELSE IF q = <<>> THEN TRUE
    ELSE IF p[1] # q[1] THEN p[1] > q[1]
    ELSE PathGt(Tail(p), Tail(q))

\* str.__lt__: lexicographic order of the two path strings
RECURSIVE PathLt(_, _)
PathLt(p, q) ==
    IF q = <<>> THEN FALSE
    ELSE IF p = <<>> THEN TRUE
    ELSE IF p[1] # q[1] THEN p[1] < q[1]
    ELSE PathLt(Tail(p), Tail(q))

\* tuple.__lt__ on (-val_loss, checkpoint_path): the first position whose
\* items are not == decides, compared with <
TupleLt(a, b) ==
    IF ~FloatEq(a[1], b[1]) THEN FloatLt(a[1], b[1])
    ELSE PathLt(a[2], b[2])

\* ----------------------------------------------------------------- heapq
\* Positions are 0-based as in heapq; heap[pos + 1] is the item at pos.
RECURSIVE SiftdownLoop(_, _, _, _)
SiftdownLoop(heap, newitem, startpos, pos) ==
    IF pos > startpos
    THEN LET parentpos == (pos - 1) \div 2
             parent == heap[parentpos + 1]
         IN  IF TupleLt(newitem, parent)
             THEN SiftdownLoop([heap EXCEPT ![pos + 1] = parent],
                               newitem, startpos, parentpos)
             ELSE [heap EXCEPT ![pos + 1] = newitem]
    ELSE [heap EXCEPT ![pos + 1] = newitem]

siftdown(heap, startpos, pos) == SiftdownLoop(heap, heap[pos + 1], startpos, pos)

RECURSIVE SiftupLoop(_, _)
SiftupLoop(heap, pos) ==
    LET endpos == Len(heap)
        childpos == 2 * pos + 1
        rightpos == childpos + 1
    IN  IF childpos < endpos
        THEN LET c == IF rightpos < endpos
                         /\ ~TupleLt(heap[childpos + 1], heap[rightpos + 1])
                      THEN rightpos ELSE childpos
             IN  SiftupLoop([heap EXCEPT ![pos + 1] = heap[c + 1]], c)
        ELSE <<heap, pos>>

siftup(heap, pos) ==
    LET newitem == heap[pos + 1]
        r == SiftupLoop(heap, pos)
    IN  siftdown([r[1] EXCEPT ![r[2] + 1] = newitem], pos, r[2])

heappush(heap, item) == siftdown(Append(heap, item), 0, Len(heap))

\* list.pop() used in place of heappop
PopLast(heap) ==
    [item |-> heap[Len(heap)], heap |-> SubSeq(heap, 1, Len(heap) - 1)]

heappop(heap) ==
    LET lastelt == heap[Len(heap)]
        rest == SubSeq(heap, 1, Len(heap) - 1)
    IN  IF rest # <<>>
        THEN [item |-> rest[1], heap |-> siftup([rest EXCEPT ![1] = lastelt], 0)]
        ELSE [item |-> lastelt, heap |-> <<>>]

\* ------------------------------------------------------------ file system
\* a write that never reaches the disk
WriteFileDropped(fs, p) == fs
\* torch.save(checkpoint, path) creates or overwrites the file at path
WriteFile(fs, p) == fs \cup {p}
\* a removal that leaves the file in place
RemoveFileKept(fs, p) == fs
\* os.remove(path)
RemoveFile(fs, p) == fs \ {p}

\* ------------------------------------------------------ conditions of run
\* the delay test without the + 1
PastSaveDelayLate(e, delay) == e >= delay
\* line 159
PastSaveDelay(e, delay) == e + 1 >= delay
\* off by one: pops only above keep_best + 1
OverCapacityLate(heap, k) == Len(heap) > k + 1
\* line 171
OverCapacity(heap, k) == Len(heap) > k
\* the lazy-write test dropped: every candidate is written
SkipWriteNever(path, to_delete) == FALSE
\* line 173
SkipWrite(path, to_delete) == path = to_delete
\* the last-epoch save never taken
IsLastEpochNever(e, n) == FALSE
\* the last-epoch test dropped: every epoch saves at line 185
IsLastEpochAlways(e, n) == TRUE
\* line 182
IsLastEpoch(e, n) == e + 1 = n
\* a selection that reads the end of the list instead of its head
SelectLast(heap) == IF Len(heap) = 0 THEN <<>> ELSE <<heap[Len(heap)][2]>>
\* a selection that falls back to the first epoch's path on an empty heap
SelectBestOrDefault(heap) ==
    IF Len(heap) = 0 THEN <<ChkPath(0)>> ELSE <<heap[1][2]>>
\* line 192: _, best_checkpoint_path = checkpoint_heap[0]; <<>> stands for
\* the IndexError that subscripting an empty list raises
SelectBest(heap) == IF Len(heap) = 0 THEN <<>> ELSE <<heap[1][2]>>

\* ------------------------------------------------------------------ state
VARIABLES
    keep_best,        \* int(cfg_exp['keep_best'])
    num_epochs,       \* int(cfg_exp['num_epochs'])
    save_delay,       \* int(cfg_exp['save_delay'])
    epoch_num,        \* loop variable of the epoch loop
    checkpoint_heap,  \* list of (-val_loss, checkpoint_path) kept by heapq
    checkpoint,       \* local `checkpoint`: <<>> while unbound, else <<dict>>
    files,            \* chk-*.pth.tar files present in save_folder
    best_chk,         \* <<>>, or <<p>> when best_chk.pth.tar is a complete copy of p
    returned,         \* <<>>, or <<p>> once run has returned p
    pc,               \* position in run
    error,            \* exception that left run, "none" if none
    offers,           \* history: one record per executed checkpoint step
    io_log            \* history: every torch.save / os.remove / copyfile call

vars == <<keep_best, num_epochs, save_delay, epoch_num, checkpoint_heap,
          checkpoint, files, best_chk, returned, pc, error, offers, io_log>>

config == <<keep_best, num_epochs, save_delay>>

Init ==
    /\ keep_best \in 1..MaxKeep
    /\ num_epochs \in 0..MaxEpochs
    /\ save_delay \in 1..MaxDelay
    /\ epoch_num = 0
    /\ checkpoint_heap = <<>>
    /\ checkpoint = <<>>
    /\ files = {}
    /\ best_chk = <<>>
    /\ returned = <<>>
    /\ pc = IF num_epochs > 0 THEN "epoch" ELSE "finish"
    /\ error = "none"
    /\ offers = <<>>
    /\ io_log = <<>>

\* one call of torch.save, os.remove or shutil.copyfile, made at source line `line`
IoCall(op, line, path, ok) ==
    [op |-> op, line |-> line, path |-> path, epoch |-> epoch_num, ok |-> ok]

Offer(loss, outcome) ==
    [epoch |-> epoch_num, loss |-> loss, path |-> ChkPath(epoch_num),
     outcome |-> outcome, heap_before |-> checkpoint_heap,
     files_before |-> files]

Dict(loss) == [epoch |-> epoch_num + 1, val_loss |-> loss]

\* lines 129-159: an epoch before the warm-up delay has elapsed
BeforeDelay ==
    /\ pc = "epoch"
    /\ ~PastSaveDelay(epoch_num, save_delay)
    /\ pc' = "last"
    /\ UNCHANGED <<config, epoch_num, checkpoint_heap, checkpoint, files,
                   best_chk, returned, error, offers, io_log>>

\* what the checkpoint step did with the candidate, as observed on the heap
Outcome(pop_done, checkpoint_path, checkpoint_to_delete) ==
    IF ~pop_done THEN "accepted"
    ELSE IF checkpoint_path = checkpoint_to_delete THEN "rejected"
    ELSE "evicting"

\* lines 159-179, no I/O failure
CheckpointStep(loss) ==
    /\ pc = "epoch"
    /\ PastSaveDelay(epoch_num, save_delay)
    /\ LET checkpoint_path == ChkPath(epoch_num)
           pushed == heappush(checkpoint_heap, <<Neg(loss), checkpoint_path>>)
           popped == heappop(pushed)
           checkpoint_to_delete == popped.item[2]
           pop_done == OverCapacity(pushed, keep_best)
       IN  /\ checkpoint' = <<Dict(loss)>>
           /\ offers' = Append(offers, Offer(loss,
                  Outcome(pop_done, checkpoint_path, checkpoint_to_delete)))
           /\ IF pop_done
              THEN /\ checkpoint_heap' = popped.heap
                   /\ IF SkipWrite(checkpoint_path, checkpoint_to_delete)
                      THEN /\ files' = files
                           /\ io_log' = io_log
                      ELSE /\ checkpoint_to_delete \in WriteFile(files, checkpoint_path)
                           /\ files' = RemoveFile(WriteFile(files, checkpoint_path),
                                                  checkpoint_to_delete)
                           /\ io_log' = io_log \o
                                  <<IoCall("save", 176, checkpoint_path, TRUE),
                                    IoCall("remove", 177, checkpoint_to_delete, TRUE)>>
              ELSE /\ checkpoint_heap' = pushed
                   /\ files' = WriteFile(files, checkpoint_path)
                   /\ io_log' = Append(io_log, IoCall("save", 179, checkpoint_path, TRUE))
    /\ pc' = "last"
    /\ UNCHANGED <<config, epoch_num, best_chk, returned, error>>

\* lines 159-179, torch.save of line 176 or 179 raises; the failed call may
\* or may not leave a (partial) file behind
CheckpointSaveFails(loss) ==
    /\ pc = "epoch"
    /\ PastSaveDelay(epoch_num, save_delay)
    /\ LET checkpoint_path == ChkPath(epoch_num)
           pushed == heappush(checkpoint_heap, <<Neg(loss), checkpoint_path>>)
           popped == heappop(pushed)
       IN  /\ checkpoint' = <<Dict(loss)>>
           /\ IF OverCapacity(pushed, keep_best)
              THEN /\ ~SkipWrite(checkpoint_path, popped.item[2])
                   /\ checkpoint_heap' = popped.heap
              ELSE checkpoint_heap' = pushed
           /\ io_log' = Append(io_log,
                  IoCall("save", IF OverCapacity(pushed, keep_best) THEN 176 ELSE 179,
                         checkpoint_path, FALSE))
    /\ offers' = Append(offers, Offer(loss, "save_failed"))
    /\ files' \in {files, WriteFile(files, ChkPath(epoch_num))}
    /\ pc' = "failed"
    /\ error' = "torch.save"
    /\ UNCHANGED <<config, epoch_num, best_chk, returned>>

\* lines 159-177, torch.save of line 176 succeeds and os.remove of line 177
\* raises (always when the file is missing)
CheckpointRemoveFails(loss) ==
    /\ pc = "epoch"
    /\ PastSaveDelay(epoch_num, save_delay)
    /\ LET checkpoint_path == ChkPath(epoch_num)
           pushed == heappush(checkpoint_heap, <<Neg(loss), checkpoint_path>>)
           popped == heappop(pushed)
           checkpoint_to_delete == popped.item[2]
       IN  /\ OverCapacity(pushed, keep_best)
           /\ ~SkipWrite(checkpoint_path, checkpoint_to_delete)
           /\ checkpoint' = <<Dict(loss)>>
           /\ checkpoint_heap' = popped.heap
           /\ files' = WriteFile(files, checkpoint_path)
           /\ io_log' = io_log \o
                  <<IoCall("save", 176, checkpoint_path, TRUE),
                    IoCall("remove", 177, checkpoint_to_delete, FALSE)>>
           /\ error' = IF checkpoint_to_delete \in files'
                       THEN "os.remove" ELSE "FileNotFoundError"
    /\ offers' = Append(offers, Offer(loss, "remove_failed"))
    /\ pc' = "failed"
    /\ UNCHANGED <<config, epoch_num, best_chk, returned>>

NextIteration ==
    /\ epoch_num' = epoch_num + 1
    /\ pc' = IF epoch_num + 1 < num_epochs THEN "epoch" ELSE "finish"

\* lines 181-189 of an epoch that is not the last one
EndOfEpoch ==
    /\ pc = "last"
    /\ ~IsLastEpoch(epoch_num, num_epochs)
    /\ NextIteration
    /\ UNCHANGED <<config, checkpoint_heap, checkpoint, files, best_chk,
                   returned, error, offers, io_log>>

\* lines 181-189 of the last epoch: the checkpoint is saved unconditionally
LastEpochSave ==
    /\ pc = "last"
    /\ IsLastEpoch(epoch_num, num_epochs)
    /\ checkpoint # <<>>
    /\ files' = WriteFile(files, ChkPath(epoch_num))
    /\ io_log' = Append(io_log, IoCall("save", 185, ChkPath(epoch_num), TRUE))
    /\ NextIteration
    /\ UNCHANGED <<config, checkpoint_heap, checkpoint, best_chk, returned,
                   error, offers>>

\* line 185 raises: torch.save fails
LastEpochSaveFails ==
    /\ pc = "last"
    /\ IsLastEpoch(epoch_num, num_epochs)
    /\ checkpoint # <<>>
    /\ io_log' = Append(io_log, IoCall("save", 185, ChkPath(epoch_num), FALSE))
    /\ files' \in {files, WriteFile(files, ChkPath(epoch_num))}
    /\ pc' = "failed"
    /\ error' = "torch.save"
    /\ UNCHANGED <<config, epoch_num, checkpoint_heap, checkpoint,
                   best_chk, returned, offers>>

\* line 185 raises: `checkpoint` was never assigned (no epoch passed line 159)
LastEpochUnbound ==
    /\ pc = "last"
    /\ IsLastEpoch(epoch_num, num_epochs)
    /\ checkpoint = <<>>
    /\ pc' = "failed"
    /\ error' = "UnboundLocalError"
    /\ UNCHANGED <<config, epoch_num, checkpoint_heap, checkpoint, files,
                   best_chk, returned, offers, io_log>>

\* lines 191-195
Finish ==
    /\ pc = "finish"
    /\ SelectBest(checkpoint_heap) # <<>>
    /\ LET best_checkpoint_path == SelectBest(checkpoint_heap)[1]
       IN  /\ best_checkpoint_path \in files
           /\ best_chk' = <<best_checkpoint_path>>
           /\ returned' = <<best_checkpoint_path>>
           /\ io_log' = Append(io_log, IoCall("copy", 193, best_checkpoint_path, TRUE))
    /\ pc' = "done"
    /\ UNCHANGED <<config, epoch_num, checkpoint_heap, checkpoint, files,
                   error, offers>>

\* line 193 raises: shutil.copyfile fails (always when the source is missing)
FinishCopyFails ==
    /\ pc = "finish"
    /\ SelectBest(checkpoint_heap) # <<>>
    /\ LET best_checkpoint_path == SelectBest(checkpoint_heap)[1]
       IN  /\ io_log' = Append(io_log, IoCall("copy", 193, best_checkpoint_path, FALSE))
           /\ error' = IF best_checkpoint_path \in files
                       THEN "shutil.copyfile" ELSE "FileNotFoundError"
    /\ pc' = "failed"
    /\ UNCHANGED <<config, epoch_num, checkpoint_heap, checkpoint, files,
                   best_chk, returned, offers>>

\* line 192 raises: checkpoint_heap[0] of an empty list
FinishEmpty ==
    /\ pc = "finish"
    /\ SelectBest(checkpoint_heap) = <<>>
    /\ pc' = "failed"
    /\ error' = "IndexError"
    /\ UNCHANGED <<config, epoch_num, checkpoint_heap, checkpoint, files,
                   best_chk, returned, offers, io_log>>

Next ==
    \/ BeforeDelay
    \/ \E loss \in Losses : CheckpointStep(loss)
    \/ \E loss \in Losses : CheckpointSaveFails(loss)
    \/ \E loss \in Losses : CheckpointRemoveFails(loss)
    \/ EndOfEpoch
    \/ LastEpochSave
    \/ LastEpochSaveFails
    \/ LastEpochUnbound
    \/ Finish
    \/ FinishCopyFails
    \/ FinishEmpty

Spec == Init /\ [][Next]_vars

\* ------------------------------------------------------- history helpers
Min(a, b) == IF a < b THEN a ELSE b
HeapPaths == {checkpoint_heap[i][2] : i \in 1..Len(checkpoint_heap)}
Offered == {offers[i] : i \in 1..Len(offers)}
AllFinite == \A o \in Offered : ~IsNaN(o.loss)
NAccepted == Cardinality({o \in Offered : o.outcome # "rejected"})
LastOffer == offers[Len(offers)]
\* the checkpoint step of the current epoch has just completed
StepCompleted == pc = "last" /\ offers # <<>> /\ LastOffer.epoch = epoch_num

\* C1: with finite losses, after every checkpoint step the heap holds
\* min(offered, keep_best) candidates, each of them an offered candidate, and
\* no candidate outside the heap (rejected or evicted) has a loss strictly
\* lower than a candidate inside it.
C1_BestKRetained ==
    (pc # "failed" /\ AllFinite) =>
        /\ Cardinality(HeapPaths) = Min(Len(offers), keep_best)
        /\ Len(checkpoint_heap) = Cardinality(HeapPaths)
        /\ HeapPaths \subseteq {o.path : o \in Offered}
        /\ \A out \in Offered : \A kept \in Offered :
               (out.path \notin HeapPaths /\ kept.path \in HeapPaths)
                   => ~(out.loss.v < kept.loss.v)

C1_Witness ==
    /\ StepCompleted
    /\ AllFinite
    /\ keep_best >= 2
    /\ Len(offers) > keep_best
    /\ \E o \in Offered : o.outcome = "evicting"
    /\ LastOffer.outcome = "rejected"

\* C2: after every completed checkpoint step the heap holds at most keep_best
\* entries, and exactly min(N_accepted, keep_best), N_accepted being the
\* number of offers so far that were not rejected.
C2_BoundedSize ==
    pc # "failed" =>
        /\ Len(checkpoint_heap) <= keep_best
        /\ Len(checkpoint_heap) = Min(NAccepted, keep_best)

C2_Witness ==
    /\ StepCompleted
    /\ Len(checkpoint_heap) = keep_best
    /\ NAccepted > keep_best
    /\ \E o \in Offered : o.outcome = "rejected"

\* positions in io_log of the calls of `op` on `path`
Calls(op, path) ==
    {i \in 1..Len(io_log) : io_log[i].op = op /\ io_log[i].path = path}
Rejected == {o \in Offered : o.outcome = "rejected"}
\* paths for which some torch.save succeeded
Written == {io_log[i].path : i \in {j \in 1..Len(io_log) :
                io_log[j].op = "save" /\ io_log[j].ok}}
\* loss with which a path was offered
LossAt(path) == (CHOOSE o \in Offered : o.path = path).loss

\* C3 as stated: torch.save is never invoked for the path of a rejected
\* candidate, in any epoch.
C3_RejectedNeverWritten ==
    \A o \in Rejected : Calls("save", o.path) = {}

\* C3 amended: the checkpoint step (lines 168-179) never writes a rejected
\* candidate; torch.save is invoked for its path only by the unconditional
\* save of the last epoch (line 185), so a candidate rejected in any other
\* epoch has no save call and no file.
C3_RejectedWrittenOnlyByLastEpochSave ==
    \A o \in Rejected :
        /\ \A i \in Calls("save", o.path) :
               io_log[i].line = 185 /\ IsLastEpoch(o.epoch, num_epochs)
        /\ ~IsLastEpoch(o.epoch, num_epochs) =>
               (Calls("save", o.path) = {} /\ o.path \notin files)

C3_Witness ==
    /\ pc = "finish"
    /\ \E o \in Rejected : ~IsLastEpoch(o.epoch, num_epochs) /\ o.path \notin files
    /\ LastOffer.outcome = "rejected"
    /\ LastOffer.path \in files

\* C4 as stated: absent I/O failures the files on disk are exactly the paths
\* in the heap, and every written path no longer in the heap was removed
\* exactly once.
C4_FilesAreHeapPaths ==
    pc # "failed" =>
        /\ files = HeapPaths
        /\ \A p \in Written \ HeapPaths : Cardinality(Calls("remove", p)) = 1

\* paths written by the unconditional save of the last epoch
LastEpochSaved ==
    {io_log[i].path : i \in {j \in 1..Len(io_log) :
         io_log[j].op = "save" /\ io_log[j].line = 185 /\ io_log[j].ok}}

\* C4 amended: absent I/O failures, the files on disk are the paths in the
\* heap plus the last epoch's path once line 185 has saved it; every written
\* path outside the heap other than that one was removed exactly once, no
\* path in the heap was ever removed, and os.remove never meets a missing file.
C4_FilesAreHeapPathsPlusLastEpoch ==
    /\ error # "FileNotFoundError"
    /\ pc # "failed" =>
        /\ files = HeapPaths \cup LastEpochSaved
        /\ \A p \in HeapPaths : Calls("remove", p) = {}
        /\ \A p \in Written \ HeapPaths :
               IF p \in LastEpochSaved
               THEN Calls("remove", p) = {}
               ELSE Cardinality(Calls("remove", p)) = 1 /\ p \notin files

C4_Witness ==
    /\ pc = "finish"
    /\ \E p \in Written \ HeapPaths : p \notin LastEpochSaved
    /\ LastEpochSaved # {}
    /\ ~(LastEpochSaved \subseteq HeapPaths)

\* C5 as stated: the path run returns (and copies to best_chk.pth.tar) has
\* the minimum validation loss among the entries of the heap.
C5_ReturnsMinimumLoss ==
    (pc = "done" /\ AllFinite) =>
        \A p \in HeapPaths : ~(LossAt(p).v < LossAt(returned[1]).v)

\* C6 as stated: a NaN loss offered to a heap that is at capacity and holds
\* only finite losses is rejected: nothing is written, nothing is deleted and
\* the heap is unchanged.
C6_NaNRejectedAtCapacity ==
    (/\ StepCompleted
     /\ IsNaN(LastOffer.loss)
     /\ Len(LastOffer.heap_before) = keep_best
     /\ \A i \in 1..Len(LastOffer.heap_before) :
            ~IsNaN(LastOffer.heap_before[i][1]))
    => /\ LastOffer.outcome = "rejected"
       /\ Calls("save", LastOffer.path) = {}
       /\ files = LastOffer.files_before
       /\ checkpoint_heap = LastOffer.heap_before

\* C7 as stated: when torch.save raises in the checkpoint step, the heap at
\* the moment the failure leaves run equals the heap before the step.
C7_SaveFailureLeavesHeapUnchanged ==
    (pc = "failed" /\ offers # <<>> /\ LastOffer.outcome = "save_failed")
        => /\ error = "torch.save"
           /\ checkpoint_heap = LastOffer.heap_before

\* C8 as stated: when run returns, the checkpoint files are exactly the paths
\* in the heap, and best_chk.pth.tar is a copy of the selected path made after
\* the last offer.
C8_LayoutIsHeapPlusAlias ==
    pc = "done" =>
        /\ files = HeapPaths
        /\ best_chk = returned

\* C8 amended: when run returns, the checkpoint files are the paths in the
\* heap plus the last epoch's path (saved by line 185 even if not retained),
\* best_chk.pth.tar is a copy of the returned path, and the copy is the one
\* and final I/O call of the run, made after the epoch loop; before run
\* returns there is no best_chk.pth.tar.
C8_LayoutIsHeapPlusLastEpochPlusAlias ==
    /\ pc # "done" => best_chk = <<>> /\ returned = <<>>
    /\ \A i \in 1..Len(io_log) :
           (io_log[i].op = "copy") => (i = Len(io_log) /\ io_log[i].epoch = num_epochs)
    /\ pc = "done" =>
        /\ files = HeapPaths \cup {ChkPath(num_epochs - 1)}
        /\ best_chk = returned
        /\ returned # <<>>
        /\ returned[1] \in HeapPaths
        /\ io_log[Len(io_log)] = [op |-> "copy", line |-> 193, path |-> returned[1],
                                  epoch |-> num_epochs, ok |-> TRUE]

C8_Witness ==
    /\ pc = "done"
    /\ Len(checkpoint_heap) >= 2
    /\ ChkPath(num_epochs - 1) \notin HeapPaths
    /\ \E o \in Offered : o.outcome = "evicting"

\* calls of `op` made during epoch e
CallsIn(op, e) ==
    {i \in 1..Len(io_log) : io_log[i].op = op /\ io_log[i].epoch = e}

\* C9 as stated: in every epoch at most one torch.save and at most one
\* os.remove.
C9_OneSaveOneRemovePerEpoch ==
    \A e \in 0..MaxEpochs :
        /\ Cardinality(CallsIn("save", e)) <= 1
        /\ Cardinality(CallsIn("remove", e)) <= 1

\* C9 amended: in every epoch at most one os.remove and at most one torch.save
\* by the checkpoint step (lines 176/179); only the last epoch adds a second
\* torch.save of the same path, the unconditional one of line 185.
C9_OneSavePerEpochTwoInLast ==
    \A e \in 0..MaxEpochs :
        /\ Cardinality(CallsIn("remove", e)) <= 1
        /\ Cardinality({i \in CallsIn("save", e) : io_log[i].line # 185}) <= 1
        /\ Cardinality(CallsIn("save", e)) <= (IF e + 1 = num_epochs THEN 2 ELSE 1)
        /\ \A i \in CallsIn("save", e) : io_log[i].path = ChkPath(e)

C9_Witness ==
    /\ pc = "finish"
    /\ Cardinality(CallsIn("save", num_epochs - 1)) = 2
    /\ \E e \in 0..MaxEpochs : Cardinality(CallsIn("remove", e)) = 1

\* C10: when the end-of-run step runs on an empty heap it raises IndexError,
\* returns no path and creates no best_chk.pth.tar; and a run in which no
\* candidate was ever offered never returns and never creates the alias.
C10_EmptyHeapFails ==
    /\ [][(pc = "finish" /\ checkpoint_heap = <<>>)
            => (/\ pc' = "failed"
                /\ error' = "IndexError"
                /\ returned' = <<>>
                /\ best_chk' = <<>>)]_vars
    /\ [](offers = <<>> => (pc # "done" /\ returned = <<>> /\ best_chk = <<>>))

C10_Witness ==
    /\ pc = "failed"
    /\ error = "IndexError"
    /\ checkpoint_heap = <<>>
    /\ best_chk = <<>>

\* ------------------------------------------- the heap before an offer
EntriesOf(heap) == {heap[i] : i \in 1..Len(heap)}
PathsIn(heap) == {heap[i][2] : i \in 1..Len(heap)}
\* the offer found a full heap holding only finite losses
FullFiniteBefore(o) ==
    /\ Len(o.heap_before) = keep_best
    /\ \A e \in EntriesOf(o.heap_before) : ~IsNaN(e[1])
\* p is worse than q: higher loss, or the same loss and the smaller path
Worse(p, q) ==
    \/ LossAt(q).v < LossAt(p).v
    \/ LossAt(q).v = LossAt(p).v /\ PathLt(p, q)
\* the worst path of a non-empty set of retained paths
WorstPath(paths) == CHOOSE p \in paths : \A q \in paths \ {p} : Worse(p, q)

EpochAt(path) == (CHOOSE o \in Offered : o.path = path).epoch
\* highest loss held by a heap of finite entries
WorstLossIn(heap) ==
    CHOOSE v \in {LossAt(p).v : p \in PathsIn(heap)} :
        \A p \in PathsIn(heap) : LossAt(p).v <= v
\* the oldest path of the heap that has loss v
OldestWithLoss(heap, v) ==
    CHOOSE p \in PathsIn(heap) :
        /\ LossAt(p).v = v
        /\ \A q \in PathsIn(heap) : LossAt(q).v = v => EpochAt(p) <= EpochAt(q)

C13_BetterEvictsWorst ==
    (/\ StepCompleted
     /\ FullFiniteBefore(LastOffer)
     /\ ~IsNaN(LastOffer.loss)
     /\ LastOffer.loss.v < WorstLossIn(LastOffer.heap_before))
    => LET worst == WorstPath(PathsIn(LastOffer.heap_before))
           new == <<Neg(LastOffer.loss), LastOffer.path>>
           n == Len(io_log)
       IN  /\ LastOffer.outcome = "evicting"
           /\ Len(checkpoint_heap) = keep_best
           /\ EntriesOf(checkpoint_heap) =
                  {e \in EntriesOf(LastOffer.heap_before) : e[2] # worst} \cup {new}
           /\ files = (LastOffer.files_before \ {worst}) \cup {LastOffer.path}
           /\ n >= 2
           /\ io_log[n - 1] = [op |-> "save", line |-> 176, path |-> LastOffer.path,
                               epoch |-> epoch_num, ok |-> TRUE]
           /\ io_log[n] = [op |-> "remove", line |-> 177, path |-> worst,
                           epoch |-> epoch_num, ok |-> TRUE]
           /\ CallsIn("save", epoch_num) = {n - 1}
           /\ CallsIn("remove", epoch_num) = {n}

C13_Witness ==
    /\ StepCompleted
    /\ keep_best >= 2
    /\ FullFiniteBefore(LastOffer)
    /\ ~IsNaN(LastOffer.loss)
    /\ LastOffer.loss.v < WorstLossIn(LastOffer.heap_before)
    /\ LastOffer.outcome = "evicting"
    /\ io_log[Len(io_log)].op = "remove"

\* C14: when the heap is full (finite entries) and the offered finite loss is
\* strictly higher than the worst retained loss, the offer is rejected: the
\* entries of the heap are those held before and no file is written or deleted.
C14_WorseIsRejected ==
    (/\ StepCompleted
     /\ FullFiniteBefore(LastOffer)
     /\ ~IsNaN(LastOffer.loss)
     /\ LastOffer.loss.v > WorstLossIn(LastOffer.heap_before))
    => /\ LastOffer.outcome = "rejected"
       /\ Len(checkpoint_heap) = Len(LastOffer.heap_before)
       /\ EntriesOf(checkpoint_heap) = EntriesOf(LastOffer.heap_before)
       /\ files = LastOffer.files_before
       /\ CallsIn("remove", epoch_num) = {}
       /\ CallsIn("save", epoch_num) = {}

C14_Witness ==
    /\ StepCompleted
    /\ keep_best >= 2
    /\ FullFiniteBefore(LastOffer)
    /\ ~IsNaN(LastOffer.loss)
    /\ LastOffer.loss.v > WorstLossIn(LastOffer.heap_before)
    /\ LastOffer.outcome = "rejected"
    /\ files # {}

\* C15: when os.remove raises after the candidate was accepted, the new entry
\* is in the heap with its file written, the evicted entry has left the heap
\* while its file is still on disk, and the exception leaves run (no path is
\* returned, no best_chk.pth.tar is made).
C15_RemoveFailureKeepsNewEntry ==
    (pc = "failed" /\ offers # <<>> /\ LastOffer.outcome = "remove_failed") =>
        LET call == io_log[Len(io_log)]
        IN  /\ call.op = "remove" /\ ~call.ok
            /\ error = "os.remove"
            /\ LastOffer.path \in HeapPaths
            /\ LastOffer.path \in files
            /\ Calls("save", LastOffer.path) # {}
            /\ call.path \in PathsIn(LastOffer.heap_before)
            /\ call.path \notin HeapPaths
            /\ call.path \in files
            /\ returned = <<>>
            /\ best_chk = <<>>

C15_Witness ==
    /\ pc = "failed"
    /\ error = "os.remove"
    /\ offers # <<>>
    /\ LastOffer.outcome = "remove_failed"
    /\ keep_best >= 2
    /\ files \ HeapPaths # {}

\* C16: once the epoch loop has completed, the last epoch's checkpoint file
\* is on disk, saved by line 185, whatever its loss and whether or not the
\* checkpoint step retained it.
C16_LastEpochAlwaysSaved ==
    (num_epochs >= 1 /\ epoch_num = num_epochs) =>
        /\ ChkPath(num_epochs - 1) \in files
        /\ \E i \in Calls("save", ChkPath(num_epochs - 1)) :
               io_log[i].line = 185 /\ io_log[i].ok /\ io_log[i].epoch = num_epochs - 1

C16_Witness ==
    /\ pc = "done"
    /\ keep_best >= 2
    /\ LastOffer.outcome = "rejected"
    /\ Calls("save", LastOffer.path) # {}
    /\ LastOffer.path = ChkPath(num_epochs - 1)
    /\ LastOffer.path \in files
    /\ LastOffer.path \notin HeapPaths

\* C17: one offer per epoch from the first epoch with epoch_num + 1 >=
\* save_delay on, in increasing epoch order, and none before; while the
\* warm-up delay has not elapsed the heap is empty and no checkpoint file has
\* been written or deleted.
C17_OffersOnlyAfterDelay ==
    /\ \A i \in 1..Len(offers) : offers[i].epoch + 1 >= save_delay
    /\ \A i \in 1..Len(offers) : \A j \in 1..Len(offers) :
           i < j => offers[i].epoch < offers[j].epoch
    /\ \A e \in 0..(epoch_num - 1) :
           (e + 1 >= save_delay) => Cardinality({o \in Offered : o.epoch = e}) = 1
    /\ \A i \in 1..Len(io_log) : io_log[i].epoch + 1 >= save_delay
    /\ (epoch_num < num_epochs /\ epoch_num + 1 < save_delay) =>
           /\ checkpoint_heap = <<>>
           /\ files = {}
           /\ offers = <<>>
           /\ io_log = <<>>

C17_Witness ==
    /\ pc = "finish"
    /\ save_delay = 2
    /\ num_epochs >= 3
    /\ Len(offers) = num_epochs - 1
    /\ offers[1].epoch = 1

\* C18 as stated: when every offered loss is NaN, the first keep_best
\* candidates stay in the heap and every later offer is rejected without write.
C18_AllNaNKeepsFirstK ==
    (pc # "failed" /\ \A o \in Offered : IsNaN(o.loss)) =>
        /\ HeapPaths = {offers[i].path : i \in 1..Min(Len(offers), keep_best)}
        /\ \A i \in 1..Len(offers) : i > keep_best => offers[i].outcome = "rejected"

\* C19: with keep_best = 1 and finite losses, the path run returns was
\* offered with the minimum loss of all candidates of the run, and the file
\* exists when it is copied (the copy never meets a missing file).
C19_KeepOneReturnsMinimum ==
    (keep_best = 1 /\ AllFinite) =>
        /\ error # "FileNotFoundError"
        /\ (pc = "finish" /\ offers # <<>>) =>
               (checkpoint_heap # <<>> /\ checkpoint_heap[1][2] \in files)
        /\ pc = "done" =>
               /\ returned # <<>>
               /\ returned[1] \in files
               /\ \A o \in Offered : ~(o.loss.v < LossAt(returned[1]).v)

C19_Witness ==
    /\ pc = "done"
    /\ keep_best = 1
    /\ AllFinite
    /\ Len(offers) >= 3
    /\ \E o \in Offered : LossAt(returned[1]).v < o.loss.v
    /\ returned[1] # LastOffer.path

====
